---- MODULE Spec2Model ----
(***************************************************************************)
(* Station matching and observation fusion of aq-biascorrection.           *)
(*                                                                         *)
(*  - OpenAQDownloader (src/data/extraction/openaq_obs.py): one run() for  *)
(*    one location: station directory query, sensor-type filter, temporal  *)
(*    coverage score, ranking, fetch loop, save.  Specification Spec.      *)
(*  - DataLoader.weight_average_with_distance (src/models/load_data.py):   *)
(*    the fusion of several station series.  Specification SpecFuse.       *)
(*                                                                         *)
(* Time is counted in hours; a station is a record of the columns the code *)
(* reads from the directory's answer.                                      *)
(***************************************************************************)
EXTENDS Integers, Sequences, FiniteSets, TLC

(***************************************************************************)
(* Bounds of the model.                                                    *)
(***************************************************************************)
\* Number of stations the directory knows around the location.
NStations == 9
\* The requested time range starts and ends on a day of FirstDay..LastDay
\* ('YYYY-MM-DD' strings parse to midnight of that day).
FirstDay == 2
LastDay == 4
\* Fuser inputs: at most MaxFuseStations stations on a grid of MaxTimes
\* timestamps.
MaxFuseStations == 3
MaxTimes == 2
MaxHours == 7
MaxReports == 2
MaxLocations == 3
MaxRuns == 2
MaxLatSteps == 4
MaxLonSteps == 4
MaxCityStations == 3

(***************************************************************************)
(* Program constants.                                                      *)
(***************************************************************************)
HoursPerDay == 24
\* get_data stops after this many successful stations.
MaxDownloaded == 5
\* The marker of an out-of-range station in is_in_temporal_range.
OutOfRange == -1
\* np.nan, the missing marker of a series (measurements are fetched with
\* value_from=0, so -1 is no measurement).
NaN == -1
ResampleHours == 3

AcceptedVariables == {"o3", "no2", "so2", "pm10", "pm25"}
\* The keys of the long_name dictionary of create_xarray_dataset_with_attrs.
LongNameKeys == {"no2", "o3", "pm25"}

(***************************************************************************)
(* The station directory: the answer of api.locations is any sub-list of   *)
(* the stations below.  Each entry gives sensorType, firstUpdated and      *)
(* lastUpdated (hours) and the haversine distance (km) to the location.    *)
(***************************************************************************)
Catalogue ==
  << [sensorType |-> "reference grade", firstUpdated |-> 0,   lastUpdated |-> 120, distance |-> 50],
     [sensorType |-> "low-cost sensor", firstUpdated |-> 10,  lastUpdated |-> 200, distance |-> 5],
     [sensorType |-> "low-cost sensor", firstUpdated |-> 0,   lastUpdated |-> 40,  distance |-> 0],
     [sensorType |-> "reference grade", firstUpdated |-> 100, lastUpdated |-> 130, distance |-> 10],
     [sensorType |-> "low-cost sensor", firstUpdated |-> 0,   lastUpdated |-> 77,  distance |-> 20],
     [sensorType |-> "low-cost sensor", firstUpdated |-> 53,  lastUpdated |-> 120, distance |-> 30],
     [sensorType |-> "low-cost sensor", firstUpdated |-> 0,   lastUpdated |-> 30,  distance |-> 40],
     [sensorType |-> "low-cost sensor", firstUpdated |-> 24,  lastUpdated |-> 96,  distance |-> 30],
     [sensorType |-> "low-cost sensor", firstUpdated |-> 72,  lastUpdated |-> 96,  distance |-> 12] >>

StationIds == 1..NStations

\* The directory row of station id (ids beyond the table reuse its rows).
Station(id) == Catalogue[((id - 1) % Len(Catalogue)) + 1]

\* The possible answers of api.locations: the stations of a set, in id order.
RECURSIVE SeqOfSet(_)
SeqOfSet(S) ==
  IF S = {} THEN <<>>
  ELSE LET m == CHOOSE x \in S : \A y \in S : x <= y
       IN <<m>> \o SeqOfSet(S \ {m})

DirectoryAnswers == { SeqOfSet(S) : S \in SUBSET StationIds }

Range(s) == { s[i] : i \in 1..Len(s) }

(***************************************************************************)
(* State.                                                                  *)
(***************************************************************************)
VARIABLES
  pc,                 \* "construct", "not_constructed", then the position
                      \* of run(): "run", "get_data", "loop_end",
                      \* "save", "returned", "raised"; "idle" outside Spec
  variable,           \* self.variable
  time_range,         \* self.time_range: [start, end], in hours
  output_exists,      \* output_path_data.exists()
  directory,          \* the answer of api.locations (a sequence of ids)
  candidates,         \* the return value of _get_closest_stations_to_location
  stations,           \* the ranked stations get_data iterates over
  next_station,       \* position of the get_data loop in stations
  xr_datasets,        \* get_data's list of fetched series (station ids)
  stations_downloaded,\* get_data's counter
  attempted,          \* the stations _get_data was called with, in order
  is_in_temporal_range, \* the column of that name: candidate id -> score
  failed,             \* the attempted stations whose _get_data raised
  directory_queries,  \* number of calls of api.locations
  measurements_queried, \* api.measurements was called
  file_written,       \* write_netcdf was called by this run
  error,              \* the exception run() ended with, "none" otherwise
  output_file,        \* the file at output_path_data: [complete, data, written_in_run]
  file_at_call,       \* [exists, file]: the output path when run() was called
  runs,               \* number of calls of run() on this downloader
  with_data,          \* the attempted stations that list the variable and
                      \* whose measurement query answered
  fpc,                \* position of the fuser: "input", "fused", "idle"
  ds,                 \* the fuser's input dataset
  fused,              \* the fuser's result
  lpc,                \* position of DataLoader.run: "run", "done", "idle"
  loader,             \* the DataLoader: variable, forecast and observation files
  merged,             \* the result of DataLoader.run: [status, table]
  bpc,                \* position of the batch: "loop", "finished", "aborted", "idle"
  batch,              \* the batch's arguments: the CSV and the variable
  row,                \* position of the loop in locations_df
  run_calls,          \* the locations downloader.run() was called for, in order
  run_results,        \* how each of these calls ended, in the same order
  logged,             \* the errors logged by the except block: [id, error]
  number_of_successful_locations,
  batch_error,        \* the exception the batch ended with, "none" otherwise
  ppc,                \* position of each of the two pipelines
  pair,               \* the two locations, the API's answer to each, the files at start
  files,              \* the file system: output path -> file
  dirs,               \* the directories of the output tree
  pair_outcome,       \* how each pipeline's run() ended, "none" before
  readers,            \* output path -> the pipelines that tested or read it
  writers,            \* output path -> the pipelines that wrote it
  points,             \* the coordinates of A and B, in degrees
  distances,          \* the results of the calls for (A,B), (B,A) and (A,A)
  kpc,                \* position of get_closest_station_to_location
  city,               \* the location and the answer of get_stations_in_city
  location_distance,  \* self.location.distance, in hundredths of a km
  closest             \* the result: [status, station]

dvars == << pc, variable, time_range, output_exists, directory, candidates, stations,
            next_station, xr_datasets, stations_downloaded, attempted,
            is_in_temporal_range, failed, directory_queries,
            measurements_queried, file_written, error, output_file,
            file_at_call, runs, with_data >>
fvars == << fpc, ds, fused >>
lvars == << lpc, loader, merged >>
bvars == << bpc, batch, row, run_calls, run_results, logged, number_of_successful_locations,
            batch_error >>
pvars == << ppc, pair, files, dirs, pair_outcome, readers, writers >>
gvars == << points, distances >>
\* The state outside the downloader.
cvars == << kpc, city, location_distance, closest >>
xvars == << fvars, lvars, bvars, pvars, gvars, cvars >>
vars == << dvars, xvars >>

(***************************************************************************)
(* _get_closest_stations_to_location: the sensor-type preference.          *)
(***************************************************************************)
IsReferenceGrade(id) == Station(id).sensorType = "reference grade"

ReferenceGrade(sts) == SelectSeq(sts, IsReferenceGrade)

\* Mutant: the emptiness test never fires.
no_stations_retrieved_never(sts) == Len(sts) < 0

\* The directory returned no station: the method raises.
no_stations_retrieved(sts) == Len(sts) = 0

\* Mutant: the preference applies only from two reference-grade stations on.
prefer_reference_grade_from_two(sts) ==
  IF Len(ReferenceGrade(sts)) > 1 THEN ReferenceGrade(sts) ELSE sts

\* 'reference grade' sensors are preferred over the others.
prefer_reference_grade(sts) ==
  IF Len(ReferenceGrade(sts)) >= 1 THEN ReferenceGrade(sts) ELSE sts

(***************************************************************************)
(* get_closest_stations_to_location: temporal coverage and ranking.        *)
(* A score is a fraction [num, den]; the marker -1 is [num |-> -1].        *)
(***************************************************************************)
\* The time ranges a run may be given: start and end are days, start <= end.
TimeRanges ==
  UNION { { [start |-> s * HoursPerDay, end |-> e * HoursPerDay] :
              e \in s..LastDay } : s \in FirstDay..LastDay }

\* strftime(..., '%Y-%m-%d'): the timestamp cut to the start of its day.
FloorDay(h) == (h \div HoursPerDay) * HoursPerDay

\* pd.date_range(a, b, freq='H')
date_range(a, b) == a..b

temporal_range_score(st, tr) ==
  IF tr.start >= st.firstUpdated /\ tr.end <= st.lastUpdated
    THEN [num |-> 1, den |-> 1]
  ELSE IF tr.end < st.firstUpdated
    THEN [num |-> OutOfRange, den |-> 1]
  ELSE LET openaq_dates == date_range(FloorDay(st.firstUpdated),
                                      FloorDay(st.lastUpdated))
           user_dates == date_range(tr.start, tr.end)
           freq_of_user_in_openaq_dates ==
             Cardinality({ u \in user_dates : u \in openaq_dates })
       IN [num |-> freq_of_user_in_openaq_dates,
           den |-> Cardinality(user_dates)]

\* stations[stations['is_in_temporal_range'] != -1]
in_range(sts, score) == SelectSeq(sts, LAMBDA id : score[id].num # OutOfRange)

\* distance / is_in_temporal_range as a fraction: x/0 is inf for x > 0 and
\* NaN for x = 0 in floating point; no exception is raised.
combination(id, score) ==
  [num |-> Station(id).distance * score[id].den, den |-> score[id].num]

IsNaNKey(k) == k.den = 0 /\ k.num = 0
IsInfKey(k) == k.den = 0 /\ k.num > 0

\* a <= b on floats: false as soon as one side is NaN.
FloatLE(a, b) ==
  /\ ~IsNaNKey(a)
  /\ ~IsNaNKey(b)
  /\ \/ IsInfKey(b)
     \/ ~IsInfKey(a) /\ a.num * b.den <= b.num * a.den

\* The order of sort_values(ascending=True): NaN keys go last.
SortsBefore(a, b) == IsNaNKey(b) \/ FloatLE(a, b)

\* The sorted lists sort_values may give for the stations of set S: the order
\* of stations with equal keys is left to the sorting algorithm.
RECURSIVE sort_values(_, _)
sort_values(S, score) ==
  IF S = {} THEN { <<>> }
  ELSE UNION { { <<m>> \o rest : rest \in sort_values(S \ {m}, score) } :
               m \in { x \in S : \A y \in S :
                         SortsBefore(combination(x, score),
                                     combination(y, score)) } }

(***************************************************************************)
(* get_data and _get_data.                                                 *)
(***************************************************************************)
\* _get_data returns a series: the variable is among the station's
\* parameters, api.measurements answers, and long_name has the variable.
fetch_succeeds(var, parameter_listed, api_answers) ==
  parameter_listed /\ api_answers /\ var \in LongNameKeys

\* Mutant: the loop stops one station late.
cap_reached_late(n) == n = MaxDownloaded + 1

\* if stations_downloaded == 5: break
cap_reached(n) == n = MaxDownloaded

\* Mutant: raise unless the cap was reached.
no_data_retrieved_below_cap(xs) == Len(xs) < MaxDownloaded

\* if len(xr_datasets) == 0: raise
no_data_retrieved(xs) == Len(xs) = 0

(***************************************************************************)
(* OpenAQDownloader.run                                                    *)
(***************************************************************************)
\* No file at the output path.
NoFile == [complete |-> FALSE, data |-> <<>>, written_in_run |-> 0]

\* The files an earlier process may have left at the output path: a complete
\* one, or one whose writing was interrupted.
EarlierFiles ==
  { [complete |-> c, data |-> <<>>, written_in_run |-> 0] : c \in BOOLEAN }

\* Mutant: the existing file is ignored.
skips_download_never(exists) == FALSE

\* if not output_path_data.exists(): ... else: log and return the path.
skips_download(exists) == exists

\* How concat_by_time_and_save_data may end.
SaveOutcomes ==
  {"concat_raises", "write_raises_no_file", "write_raises_partial_file", "written"}

\* Mutant: a file is left whatever happened.
leaves_file_always(outcome) == TRUE

\* A file is at the output path after the call.
leaves_file(outcome) == outcome \in {"write_raises_partial_file", "written"}

IdleFuser == fpc = "idle" /\ ds = <<>> /\ fused = <<>>

IdleLoader == lpc = "idle" /\ loader = <<>> /\ merged = <<>>

IdleDistance == points = <<>> /\ distances = <<>>

IdleClosest ==
  /\ kpc = "idle"
  /\ city = <<>>
  /\ location_distance = 0
  /\ closest = <<>>

IdlePair ==
  /\ ppc = <<>>
  /\ pair = <<>>
  /\ files = <<>>
  /\ dirs = {}
  /\ pair_outcome = <<>>
  /\ readers = <<>>
  /\ writers = <<>>

IdleBatch ==
  /\ bpc = "idle"
  /\ batch = <<>>
  /\ row = 1
  /\ run_calls = <<>>
  /\ run_results = <<>>
  /\ logged = <<>>
  /\ number_of_successful_locations = 0
  /\ batch_error = "none"

\* The variable names a downloader is constructed with: the accepted ones,
\* an unknown name and the script's default None.
ConstructorVariables == AcceptedVariables \cup {"co", "None"}

\* Mutant: the constructor accepts every name.
constructor_raises_never(var) == FALSE

\* OpenAQDownloader.__init__ raises NotImplementedError for other variables.
constructor_raises(var) == var \notin AcceptedVariables

Init ==
  /\ pc = "construct"
  /\ variable \in ConstructorVariables
  /\ time_range \in TimeRanges
  /\ output_exists \in BOOLEAN
  /\ directory = <<>>
  /\ candidates = <<>>
  /\ stations = <<>>
  /\ next_station = 1
  /\ xr_datasets = <<>>
  /\ stations_downloaded = 0
  /\ attempted = <<>>
  /\ is_in_temporal_range = <<>>
  /\ failed = {}
  /\ directory_queries = 0
  /\ measurements_queried = FALSE
  /\ file_written = FALSE
  /\ error = "none"
  /\ output_file \in (IF output_exists THEN EarlierFiles ELSE {NoFile})
  /\ file_at_call = [exists |-> FALSE, file |-> NoFile]
  /\ runs = 0
  /\ with_data = {}
  /\ IdleFuser
  /\ IdleLoader
  /\ IdleBatch
  /\ IdlePair
  /\ IdleDistance
  /\ IdleClosest

\* OpenAQDownloader(location, output_dir, variable): the constructor creates
\* the API client and tests the variable; when it returns, run() is called.
Construct ==
  /\ pc = "construct"
  /\ IF constructor_raises(variable)
       THEN /\ pc' = "not_constructed"
            /\ error' = "NotImplementedError"
            /\ UNCHANGED << file_at_call, runs >>
       ELSE /\ pc' = "run"
            /\ file_at_call' = [exists |-> output_exists, file |-> output_file]
            /\ runs' = 1
            /\ UNCHANGED error
  /\ UNCHANGED << variable, time_range, output_exists, directory, candidates,
                  stations, next_station, xr_datasets, stations_downloaded,
                  attempted, is_in_temporal_range, failed, directory_queries,
                  measurements_queried, file_written, output_file, with_data,
                  xvars >>

\* run(): the output file exists already, nothing is fetched.
RunOutputExists ==
  /\ pc = "run"
  /\ skips_download(output_exists)
  /\ pc' = "returned"
  /\ UNCHANGED << variable, time_range, output_exists, directory, candidates,
                  stations,
                  next_station, xr_datasets, stations_downloaded, attempted,
                  is_in_temporal_range, failed, directory_queries,
                  measurements_queried, file_written, error, output_file,
                  file_at_call, runs, with_data, xvars >>

\* get_closest_stations_to_location(), with the directory's answer.
GetClosestStations ==
  /\ pc = "run"
  /\ ~skips_download(output_exists)
  /\ \E answer \in DirectoryAnswers :
       /\ directory' = answer
       /\ directory_queries' = directory_queries + 1
       /\ IF no_stations_retrieved(answer)
            THEN /\ pc' = "raised"
                 /\ error' = "NoStations"
                 /\ UNCHANGED << candidates, stations, is_in_temporal_range >>
            ELSE LET chosen == prefer_reference_grade(answer)
                     score == [ id \in Range(chosen) |->
                                  temporal_range_score(Station(id), time_range) ]
                 IN /\ candidates' = chosen
                    /\ is_in_temporal_range' = score
                    /\ stations' \in sort_values(Range(in_range(chosen, score)), score)
                    /\ pc' = IF Len(stations') = 0 THEN "loop_end" ELSE "get_data"
                    /\ UNCHANGED error
  /\ UNCHANGED << variable, time_range, output_exists, next_station,
                  xr_datasets, stations_downloaded, attempted, failed,
                  measurements_queried, file_written, output_file,
                  file_at_call, runs, with_data, xvars >>

\* One iteration of the loop of get_data: _get_data on the next station.
GetDataStation ==
  /\ pc = "get_data"
  /\ next_station <= Len(stations)
  /\ LET station == stations[next_station]
     IN \E parameter_listed \in BOOLEAN, api_answers \in BOOLEAN :
          /\ attempted' = Append(attempted, station)
          /\ measurements_queried' = (measurements_queried \/ parameter_listed)
          /\ with_data' = IF parameter_listed /\ api_answers
                             THEN with_data \cup {station} ELSE with_data
          /\ IF fetch_succeeds(variable, parameter_listed, api_answers)
               THEN /\ xr_datasets' = Append(xr_datasets, station)
                    /\ stations_downloaded' = stations_downloaded + 1
                    /\ UNCHANGED failed
               ELSE /\ failed' = failed \cup {station}
                    /\ UNCHANGED << xr_datasets, stations_downloaded >>
          /\ next_station' = next_station + 1
          /\ pc' = IF \/ /\ fetch_succeeds(variable, parameter_listed, api_answers)
                         /\ cap_reached(stations_downloaded')
                      \/ next_station' > Len(stations)
                     THEN "loop_end" ELSE "get_data"
  /\ UNCHANGED << variable, time_range, output_exists, directory, candidates,
                  stations,
                  is_in_temporal_range, directory_queries, file_written,
                  error, output_file, file_at_call, runs, xvars >>

\* After the loop of get_data: raise when nothing was retrieved.
GetDataEnd ==
  /\ pc = "loop_end"
  /\ IF no_data_retrieved(xr_datasets)
       THEN pc' = "raised" /\ error' = "NoData"
       ELSE pc' = "save" /\ UNCHANGED error
  /\ UNCHANGED << variable, time_range, output_exists, directory, candidates,
                  stations,
                  next_station, xr_datasets, stations_downloaded, attempted,
                  is_in_temporal_range, failed, directory_queries,
                  measurements_queried, file_written, output_file,
                  file_at_call, runs, with_data, xvars >>

\* concat_by_time_and_save_data and the return of run().  xr.concat may
\* raise; write_netcdf writes to the output path itself, so an exception of
\* to_netcdf leaves there what was written until then.
ConcatAndSave ==
  /\ pc = "save"
  /\ \E outcome \in SaveOutcomes :
       /\ file_written' = (outcome # "concat_raises")
       /\ output_exists' = leaves_file(outcome)
       /\ output_file' =
            IF leaves_file(outcome)
              THEN [complete |-> outcome = "written", data |-> xr_datasets,
                    written_in_run |-> runs]
              ELSE NoFile
       /\ pc' = IF outcome = "written" THEN "returned" ELSE "raised"
       /\ error' = IF outcome = "written" THEN "none"
                   ELSE IF outcome = "concat_raises" THEN "Concat" ELSE "Write"
  /\ UNCHANGED << variable, time_range, directory, candidates, stations,
                  next_station, xr_datasets, stations_downloaded, attempted,
                  is_in_temporal_range, failed, directory_queries,
                  measurements_queried, file_at_call, runs, with_data, xvars >>

\* run() is called again on the same downloader, after it returned or raised.
RunAgain ==
  /\ pc \in {"returned", "raised"}
  /\ runs < MaxRuns
  /\ pc' = "run"
  /\ runs' = runs + 1
  /\ file_at_call' = [exists |-> output_exists, file |-> output_file]
  /\ directory' = <<>>
  /\ candidates' = <<>>
  /\ stations' = <<>>
  /\ next_station' = 1
  /\ xr_datasets' = <<>>
  /\ stations_downloaded' = 0
  /\ attempted' = <<>>
  /\ is_in_temporal_range' = <<>>
  /\ failed' = {}
  /\ directory_queries' = 0
  /\ measurements_queried' = FALSE
  /\ file_written' = FALSE
  /\ error' = "none"
  /\ with_data' = {}
  /\ UNCHANGED << variable, time_range, output_exists, output_file, xvars >>

Next ==
  \/ Construct
  \/ RunOutputExists
  \/ GetClosestStations
  \/ GetDataStation
  \/ GetDataEnd
  \/ ConcatAndSave
  \/ RunAgain

Spec == Init /\ [][Next]_vars

(***************************************************************************)
(* DataLoader.weight_average_with_distance                                 *)
(*                                                                         *)
(* The dataset is a sequence of stations, each with its distance (km) and  *)
(* its values on the common time grid 1..MaxTimes; NaN marks a missing     *)
(* value.  The result is [status, values]: status "TypeError" when the     *)
(* method raises.                                                          *)
(***************************************************************************)
Times == 1..MaxTimes

\* Distances of the fetched stations; 100/d is no half-integer for them,
\* so rounding to 2 decimals has no tie.
Distances == {10, 70, 90}

\* The measurement of station i at timestamp t, when it is not missing.
Measured(i, t) == 2 * i + t

\* The dataset of n stations with distances dd and values where mask says so.
FuserInput(n, dd, mask) ==
  [ i \in 1..n |->
      [distance |-> dd[i],
       values |-> [ t \in Times |->
                      IF mask[i][t] THEN Measured(i, t) ELSE NaN ]] ]

RECURSIVE SumOver(_, _)
SumOver(S, f) ==
  IF S = {} THEN 0
  ELSE LET x == CHOOSE y \in S : TRUE
       IN f[x] + SumOver(S \ {x}, f)

\* The stations with a value at timestamp t.
Present(dset, t) == { i \in 1..Len(dset) : dset[i].values[t] # NaN }

\* round(1 / distance, 2), in hundredths.
distance_weight(d) == (200 + d) \div (2 * d)

\* The dictionary distance_and_value of timestamp t: keyed by the weight,
\* filled in station order, so a later station with the same weight
\* replaces an earlier one.
distance_and_value(dset, t) ==
  LET weight(i) == distance_weight(dset[i].distance)
  IN [ w \in { weight(i) : i \in Present(dset, t) } |->
         LET last == CHOOSE i \in Present(dset, t) :
                       /\ weight(i) = w
                       /\ \A j \in Present(dset, t) : weight(j) = w => j <= i
         IN dset[last].values[t] ]

\* Mutant: a timestamp without any value is filled with 0.
time_average_zero_fill(dset, t) ==
  IF DOMAIN distance_and_value(dset, t) = {}
    THEN [raised |-> FALSE, value |-> 0]
    ELSE [raised |-> TRUE, value |-> NaN]

\* One iteration of the loop over ds.time.values.  With an empty dictionary
\* np.nan is appended.  Otherwise np.array(distance_and_value.keys()) wraps
\* the dict_keys view in a 0-d object array, and dividing it by the sum of
\* the keys raises TypeError: np.average is never reached.
time_average(dset, t) ==
  IF DOMAIN distance_and_value(dset, t) = {}
    THEN [raised |-> FALSE, value |-> NaN]
    ELSE [raised |-> TRUE, value |-> NaN]

\* Mutant: missing values count as 0 in the mean (nansum / count).
mean_station_id_nan_as_zero(dset, t) ==
  SumOver(Present(dset, t), [ i \in Present(dset, t) |-> dset[i].values[t] ])
    \div Len(dset)

\* ds.mean('station_id') at timestamp t: the mean of the values present,
\* NaN when there is none.
mean_station_id(dset, t) ==
  IF Present(dset, t) = {} THEN NaN
  ELSE SumOver(Present(dset, t), [ i \in Present(dset, t) |-> dset[i].values[t] ])
         \div Cardinality(Present(dset, t))

\* The coordinates of the dataset written by the downloader
\* (create_xarray_dataset_with_attrs), and those the fuser drops.
DatasetCoords == {"time", "station_id", "x", "y", "_x", "_y", "distance"}
DroppedCoords == {"x", "y", "_x", "_y", "distance"}

\* ds.mean('station_id') followed by ds.drop([...]): the coordinates left.
coords_after_mean_and_drop == (DatasetCoords \ {"station_id"}) \ DroppedCoords

\* ds.time.values
TimeGrid(dset) == DOMAIN dset[1].values

weight_average_with_distance(dset) ==
  IF Len(dset) = 1
    THEN [status |-> "ok",
          values |-> [ t \in TimeGrid(dset) |-> mean_station_id(dset, t) ],
          coords |-> coords_after_mean_and_drop]
  ELSE IF \E t \in TimeGrid(dset) : time_average(dset, t).raised
    THEN [status |-> "TypeError", values |-> <<>>, coords |-> {}]
  ELSE [status |-> "ok",
        values |-> [ t \in TimeGrid(dset) |-> time_average(dset, t).value ],
        coords |-> coords_after_mean_and_drop]

IdleDownloader ==
  /\ pc = "idle"
  /\ variable = "o3"
  /\ time_range = [start |-> FirstDay * HoursPerDay, end |-> LastDay * HoursPerDay]
  /\ output_exists = FALSE
  /\ directory = <<>>
  /\ candidates = <<>>
  /\ stations = <<>>
  /\ next_station = 1
  /\ xr_datasets = <<>>
  /\ stations_downloaded = 0
  /\ attempted = <<>>
  /\ is_in_temporal_range = <<>>
  /\ failed = {}
  /\ directory_queries = 0
  /\ measurements_queried = FALSE
  /\ file_written = FALSE
  /\ error = "none"
  /\ output_file = NoFile
  /\ file_at_call = [exists |-> FALSE, file |-> NoFile]
  /\ runs = 1
  /\ with_data = {}

InitFuse ==
  /\ IdleDownloader
  /\ IdleLoader
  /\ IdleBatch
  /\ IdlePair
  /\ IdleDistance
  /\ IdleClosest
  /\ fpc = "input"
  /\ \E n \in 1..MaxFuseStations :
       \E dd \in [1..n -> Distances], mask \in [1..n -> [Times -> BOOLEAN]] :
         ds = FuserInput(n, dd, mask)
  /\ fused = <<>>

\* The call of weight_average_with_distance(ds).
WeightAverageWithDistance ==
  /\ fpc = "input"
  /\ fused' = weight_average_with_distance(ds)
  /\ fpc' = "fused"
  /\ UNCHANGED << ds, dvars, lvars, bvars, pvars, gvars, cvars >>

NextFuse == WeightAverageWithDistance

SpecFuse == InitFuse /\ [][NextFuse]_vars

(***************************************************************************)
(* DataLoader.run                                                          *)
(*                                                                         *)
(* Time is counted in hours; the forecast has one timestamp every          *)
(* ResampleHours hours, and the observation file one timestamp for every   *)
(* hour at which a station reported.  A table row is a record              *)
(* [time, forecast, other, observed, bias]: "forecast" is the column       *)
(* {variable}_forecast, "other" another forecast column, "observed" the    *)
(* column {variable}_observed.                                             *)
(***************************************************************************)
LoadVariables == {"o3", "no2"}

LoadHours == 0..(MaxHours - 1)

\* The timestamp of the 3-hour bin of hour h.
Bin(h) == (h \div ResampleHours) * ResampleHours

ForecastTimes == { Bin(h) : h \in LoadHours }

\* What the forecast file holds at one of its timestamps.
ForecastCells == {"absent", "ok", "target_nan", "other_nan"}

ForecastValue == 500
OtherValue == 7

\* The dataset returned by opening_and_transforming_forecast for a file whose
\* timestamps and missing values are given by cells.
ForecastData(cells) ==
  [status |-> "ok",
   times  |-> { t \in DOMAIN cells : cells[t] # "absent" },
   target |-> [ t \in DOMAIN cells |->
                  IF cells[t] = "target_nan" THEN NaN ELSE ForecastValue ],
   other  |-> [ t \in DOMAIN cells |->
                  IF cells[t] = "other_nan" THEN NaN ELSE OtherValue ]]

\* xr.open_dataset(self.forecast_path) raised.
ForecastMissing == [status |-> "raised", times |-> {}, target |-> <<>>, other |-> <<>>]

\* The measurement station i reported at hour h, in the file's unit.
Reported(i, h) == 6 * (i + h)

\* The sets of hours at which one station reported.
ReportHours == { H \in SUBSET LoadHours : H # {} /\ Cardinality(H) <= MaxReports }

\* The observation file of n stations reporting at hours[i].
ObservationFile(n, hours) ==
  [status |-> "ok",
   stations |-> [ i \in 1..n |-> [distance |-> 10 * i, hours |-> hours[i]] ]]

\* xr.open_dataset(self.observations_path) raised.
ObservationMissing == [status |-> "raised", stations |-> <<>>]

\* observations_data[variable] *= 10**3; /= 0.816 (only for o3).
to_micrograms(var, v) == IF var = "o3" THEN (v * 1000 * 1000) \div 816 ELSE v

\* The timestamps of the file: those at which some station reported.
FileHours(stns) == UNION { stns[i].hours : i \in 1..Len(stns) }

\* resample({'time': '3H'}): every bin from the first timestamp's to the
\* last timestamp's, also those without a timestamp.
resample_bins(stns) ==
  LET first == CHOOSE h \in FileHours(stns) : \A g \in FileHours(stns) : h <= g
      last  == CHOOSE h \in FileHours(stns) : \A g \in FileHours(stns) : g <= h
  IN { b \in ForecastTimes : Bin(first) <= b /\ b <= Bin(last) }

\* .mean('time') of one bin of one station: NaN for a bin without value.
resample_mean(var, i, H) ==
  IF H = {} THEN NaN
  ELSE SumOver(H, [ h \in H |-> to_micrograms(var, Reported(i, h)) ])
         \div Cardinality(H)

\* The unit conversion followed by the resampling.
resampled(var, stns) ==
  [ i \in 1..Len(stns) |->
      [distance |-> stns[i].distance,
       values |-> [ b \in resample_bins(stns) |->
                      resample_mean(var, i,
                        { h \in stns[i].hours : Bin(h) = b }) ]] ]

\* The result [status, values] of the method: "raised" when open_dataset or
\* the fuser raises.
opening_and_transforming_observations(var, file) ==
  IF file.status = "raised" THEN [status |-> "raised", values |-> <<>>]
  ELSE LET averaged == weight_average_with_distance(resampled(var, file.stations))
       IN IF averaged.status # "ok"
            THEN [status |-> "raised", values |-> <<>>]
            ELSE [status |-> "ok", values |-> averaged.values]

\* xr.merge([forecast_data, observed_data]).to_dataframe(): the outer join
\* on time; a column is NaN where its dataset has no such timestamp.
xr_merge(forecast, observed) ==
  { [time     |-> t,
     forecast |-> IF t \in forecast.times THEN forecast.target[t] ELSE NaN,
     other    |-> IF t \in forecast.times THEN forecast.other[t] ELSE NaN,
     observed |-> IF t \in DOMAIN observed.values THEN observed.values[t] ELSE NaN]
    : t \in forecast.times \cup DOMAIN observed.values }

\* Mutant: no row is dropped.
dropna_keeps_all(rows) == rows

\* merged_pd.dropna(): the rows without NaN in any column.
dropna(rows) ==
  { r \in rows : r.forecast # NaN /\ r.other # NaN /\ r.observed # NaN }

\* merged_pd[bias] = merged_pd[forecast] - merged_pd[observed]
with_bias(rows) ==
  { [time |-> r.time, forecast |-> r.forecast, other |-> r.other,
     observed |-> r.observed, bias |-> r.forecast - r.observed] : r \in rows }

\* Mutant: the forecast is opened inside the try block.
run_status_forecast_in_try(forecast, observed) ==
  IF forecast.status = "raised" \/ observed.status = "raised"
    THEN "NoDataException"
    ELSE "returned"

\* How run ends: the forecast is opened before the try block, so its
\* exception leaves run as it is; any exception of the observations is
\* replaced by Exception('There is not data for this variable ...').
run_status(forecast, observed) ==
  IF forecast.status = "raised" THEN "ForecastException"
  ELSE IF observed.status = "raised" THEN "NoDataException"
  ELSE "returned"

run(ld) ==
  LET observed == opening_and_transforming_observations(ld.variable, ld.observations)
      status   == run_status(ld.forecast, observed)
  IN [status |-> status,
      table  |-> IF status = "returned"
                   THEN with_bias(dropna(xr_merge(ld.forecast, observed)))
                   ELSE {}]

InitLoad ==
  /\ IdleDownloader
  /\ IdleFuser
  /\ IdleBatch
  /\ IdlePair
  /\ IdleDistance
  /\ IdleClosest
  /\ lpc = "run"
  /\ \E var \in LoadVariables :
       \E fc \in {ForecastMissing}
                   \cup { ForecastData(c) : c \in [ForecastTimes -> ForecastCells] } :
         \E obs \in {ObservationMissing}
                      \cup { ObservationFile(1, hh) : hh \in [1..1 -> ReportHours] }
                      \cup { ObservationFile(2, hh) : hh \in [1..2 -> ReportHours] } :
           loader = [variable |-> var, forecast |-> fc, observations |-> obs]
  /\ merged = <<>>

\* The call of DataLoader.run().
Run ==
  /\ lpc = "run"
  /\ merged' = run(loader)
  /\ lpc' = "done"
  /\ UNCHANGED << loader, dvars, fvars, bvars, pvars, gvars, cvars >>

NextLoad == Run

SpecLoad == InitLoad /\ [][NextLoad]_vars

(***************************************************************************)
(* download_openaq_data_from_csv_with_locations_info: the batch over the   *)
(* rows of the locations CSV.                                              *)
(***************************************************************************)
LocationIds == {"AE001", "ES002", "FR003"}

\* The CSVs: up to MaxLocations rows with distinct ids, with or without the
\* column 'elevation'.
RECURSIVE RowLists(_)
RowLists(n) ==
  IF n = 0 THEN { <<>> }
  ELSE RowLists(n - 1)
         \cup { Append(rows, id) : rows \in { r \in RowLists(n - 1) : Len(r) = n - 1 },
                                   id \in LocationIds }

LocationsCsvs ==
  { [rows |-> rows, has_elevation |-> e] :
      rows \in { r \in RowLists(MaxLocations) :
                   \A i, j \in 1..Len(r) : i # j => r[i] # r[j] },
      e \in BOOLEAN }

\* The values of --variable: the default None, an unknown name, accepted names.
BatchVariables == {"None", "co", "o3", "so2"}

\* How downloader.run() may end for a location.
RunOutcomes == {"returned", "exists", "NoStations", "NoData", "KeyError"}

\* run() returns a message after a download and when the output file
\* already exists; otherwise it raises.
run_returns(outcome) == outcome \in {"returned", "exists"}

\* Mutant: only a download is counted.
successes_after_download_only(n, outcome) ==
  IF outcome = "returned" THEN n + 1 ELSE n

\* number_of_successful_locations += 1 follows downloader.run() inside the
\* try block: it is executed exactly when run() returns.
successes_after(n, outcome) ==
  IF run_returns(outcome) THEN n + 1 ELSE n

\* Location(...): location[1]['elevation'] raises KeyError without the column.
location_raises(csv) == ~csv.has_elevation

\* Mutant: the except block raises again.
loop_continues_only_after_return(outcome) == outcome = "returned"

\* The try block around downloader.run(): after a normal return and after
\* an Exception (caught by 'except Exception', logged, 'continue') the loop
\* goes on with the next row.
loop_continues(outcome) == outcome \in RunOutcomes

InitBatch ==
  /\ IdleDownloader
  /\ IdleFuser
  /\ IdleLoader
  /\ IdlePair
  /\ IdleDistance
  /\ IdleClosest
  /\ bpc = "loop"
  /\ \E csv \in LocationsCsvs, var \in BatchVariables :
       batch = [locations_df |-> csv, variable |-> var]
  /\ row = 1
  /\ run_calls = <<>>
  /\ run_results = <<>>
  /\ logged = <<>>
  /\ number_of_successful_locations = 0
  /\ batch_error = "none"

\* One iteration of the loop: Location(...), OpenAQDownloader(...), and
\* downloader.run() inside try/except.
BatchLocation ==
  /\ bpc = "loop"
  /\ row <= Len(batch.locations_df.rows)
  /\ LET id == batch.locations_df.rows[row]
     IN IF location_raises(batch.locations_df)
          THEN /\ bpc' = "aborted"
               /\ batch_error' = "KeyError"
               /\ UNCHANGED << row, run_calls, run_results, logged,
                               number_of_successful_locations >>
        ELSE IF constructor_raises(batch.variable)
          THEN /\ bpc' = "aborted"
               /\ batch_error' = "NotImplementedError"
               /\ UNCHANGED << row, run_calls, run_results, logged,
                               number_of_successful_locations >>
        ELSE \E outcome \in RunOutcomes :
               /\ run_calls' = Append(run_calls, id)
               /\ run_results' = Append(run_results, outcome)
               /\ number_of_successful_locations' =
                    successes_after(number_of_successful_locations, outcome)
               /\ logged' =
                    IF ~run_returns(outcome) /\ loop_continues(outcome)
                      THEN Append(logged, [id |-> id, error |-> outcome])
                      ELSE logged
               /\ bpc' = IF loop_continues(outcome) THEN "loop" ELSE "aborted"
               /\ batch_error' = IF loop_continues(outcome) THEN "none" ELSE outcome
               /\ row' = row + 1
  /\ UNCHANGED << batch, dvars, fvars, lvars, pvars, gvars, cvars >>

\* The loop is over: the number of successful locations is logged.
BatchEnd ==
  /\ bpc = "loop"
  /\ row > Len(batch.locations_df.rows)
  /\ bpc' = "finished"
  /\ UNCHANGED << batch, row, run_calls, run_results, logged,
                  number_of_successful_locations, batch_error, dvars, fvars, lvars, pvars, gvars, cvars >>

NextBatch == BatchLocation \/ BatchEnd

SpecBatch == InitBatch /\ [][NextBatch]_vars

(***************************************************************************)
(* Two downloaders for two locations, their steps interleaved.  Each       *)
(* OpenAQDownloader has its own attributes and API client; what they share *)
(* is the output directory.                                                *)
(***************************************************************************)
PairLocations ==
  { [id |-> "ae001", city |-> "dubai", country |-> "united-arab-emirates"],
    [id |-> "ae002", city |-> "dubai", country |-> "united-arab-emirates"],
    [id |-> "es003", city |-> "madrid", country |-> "spain"] }

Pipelines == {1, 2}

\* What the API holds for a location, and whether the write goes through.
PipelineEnvs == {"no_stations", "no_data", "write_error", "data"}

\* Mutant: the path does not depend on the location's id.
get_observations_path_without_id(loc, var) == << loc.country, loc.city, var >>

\* location.get_observations_path(output_dir, variable, time range):
\* country/city/id/variable/variable_country_city_id_range.nc
get_observations_path(loc, var) == << loc.country, loc.city, loc.id, var >>

PathOf(i) == get_observations_path(pair.locations[i], pair.variable)

\* os.makedirs(output_path.parent, exist_ok=True): the directory and those
\* above it.
makedirs(path) == { SubSeq(path, 1, k) : k \in 1..Len(path) }

Absent == [exists |-> FALSE, complete |-> FALSE, data |-> "none"]

\* The file pipeline i writes: complete, or cut short by the write error.
WrittenBy(i, whole) ==
  [exists |-> TRUE, complete |-> whole, data |-> pair.locations[i].id]

\* run() of pipeline i alone on the file system fs: its outcome and the file
\* system it leaves.
run_alone(i, fs) ==
  IF fs[PathOf(i)].exists THEN [outcome |-> "returned", files |-> fs]
  ELSE IF pair.env[i] = "no_stations" THEN [outcome |-> "NoStations", files |-> fs]
  ELSE IF pair.env[i] = "no_data" THEN [outcome |-> "NoData", files |-> fs]
  ELSE IF pair.env[i] = "write_error"
    THEN [outcome |-> "Write",
          files |-> [fs EXCEPT ![PathOf(i)] = WrittenBy(i, FALSE)]]
  ELSE [outcome |-> "returned",
        files |-> [fs EXCEPT ![PathOf(i)] = WrittenBy(i, TRUE)]]

\* The two pipelines one after the other, i first.
one_after_the_other(i, j) ==
  LET first == run_alone(i, pair.files)
      second == run_alone(j, first.files)
  IN [outcome |-> (i :> first.outcome) @@ (j :> second.outcome),
      files |-> second.files]

InitPair ==
  /\ IdleDownloader
  /\ IdleFuser
  /\ IdleLoader
  /\ IdleBatch
  /\ IdleDistance
  /\ IdleClosest
  /\ \E a \in PairLocations, b \in PairLocations, env \in [Pipelines -> PipelineEnvs] :
       /\ a.id # b.id
       /\ LET locs == << a, b >>
              paths == { get_observations_path(locs[i], "o3") : i \in Pipelines }
          IN \E fs \in [paths -> {Absent, [exists |-> TRUE, complete |-> TRUE,
                                           data |-> "earlier"]}] :
               /\ pair = [locations |-> locs, variable |-> "o3", env |-> env,
                          files |-> fs]
               /\ files = fs
               /\ readers = [ q \in paths |-> {} ]
               /\ writers = [ q \in paths |-> {} ]
  /\ ppc = [ i \in Pipelines |-> "run" ]
  /\ dirs = {}
  /\ pair_outcome = [ i \in Pipelines |-> "none" ]

\* run() of pipeline i up to the test output_path_data.exists().
PairRun(i) ==
  /\ ppc[i] = "run"
  /\ readers' = [readers EXCEPT ![PathOf(i)] = @ \cup {i}]
  /\ IF files[PathOf(i)].exists
       THEN /\ ppc' = [ppc EXCEPT ![i] = "done"]
            /\ pair_outcome' = [pair_outcome EXCEPT ![i] = "returned"]
       ELSE /\ ppc' = [ppc EXCEPT ![i] = "select"]
            /\ UNCHANGED pair_outcome
  /\ UNCHANGED << pair, files, dirs, writers, dvars, fvars, lvars, bvars, gvars, cvars >>

\* get_closest_stations_to_location of pipeline i.
PairSelect(i) ==
  /\ ppc[i] = "select"
  /\ IF pair.env[i] = "no_stations"
       THEN /\ ppc' = [ppc EXCEPT ![i] = "done"]
            /\ pair_outcome' = [pair_outcome EXCEPT ![i] = "NoStations"]
       ELSE /\ ppc' = [ppc EXCEPT ![i] = "get_data"]
            /\ UNCHANGED pair_outcome
  /\ UNCHANGED << pair, files, dirs, readers, writers, dvars, fvars, lvars, bvars, gvars, cvars >>

\* get_data of pipeline i.
PairGetData(i) ==
  /\ ppc[i] = "get_data"
  /\ IF pair.env[i] = "no_data"
       THEN /\ ppc' = [ppc EXCEPT ![i] = "done"]
            /\ pair_outcome' = [pair_outcome EXCEPT ![i] = "NoData"]
       ELSE /\ ppc' = [ppc EXCEPT ![i] = "save"]
            /\ UNCHANGED pair_outcome
  /\ UNCHANGED << pair, files, dirs, readers, writers, dvars, fvars, lvars, bvars, gvars, cvars >>

\* concat_by_time_and_save_data of pipeline i and the return of run().
PairSave(i) ==
  /\ ppc[i] = "save"
  /\ dirs' = dirs \cup makedirs(PathOf(i))
  /\ files' = [files EXCEPT ![PathOf(i)] = WrittenBy(i, pair.env[i] # "write_error")]
  /\ writers' = [writers EXCEPT ![PathOf(i)] = @ \cup {i}]
  /\ ppc' = [ppc EXCEPT ![i] = "done"]
  /\ pair_outcome' = [pair_outcome EXCEPT ![i] =
                   IF pair.env[i] = "write_error" THEN "Write" ELSE "returned"]
  /\ UNCHANGED << pair, readers, dvars, fvars, lvars, bvars, gvars, cvars >>

\* Pipeline i is abandoned before it writes.
PairAbandon(i) ==
  /\ ppc[i] \in {"run", "select", "get_data", "save"}
  /\ ppc' = [ppc EXCEPT ![i] = "abandoned"]
  /\ UNCHANGED << pair, files, dirs, pair_outcome, readers, writers, dvars, fvars,
                  lvars, bvars, gvars, cvars >>

NextPair ==
  \E i \in Pipelines :
    \/ PairRun(i)
    \/ PairSelect(i)
    \/ PairGetData(i)
    \/ PairSave(i)
    \/ PairAbandon(i)

SpecPair == InitPair /\ [][NextPair]_vars

(***************************************************************************)
(* get_distance_between_two_points_on_earth, in fixed point: angles are    *)
(* whole degrees, sines and a are in thousandths, the distance is in km.   *)
(***************************************************************************)
Scale == 1000

\* 1000 * sin of 0, 1, ..., 90 degrees.
SinTable ==
  << 0, 17, 35, 52, 70, 87, 105, 122, 139, 156,
     174, 191, 208, 225, 242, 259, 276, 292, 309, 326,
     342, 358, 375, 391, 407, 423, 438, 454, 469, 485,
     500, 515, 530, 545, 559, 574, 588, 602, 616, 629,
     643, 656, 669, 682, 695, 707, 719, 731, 743, 755,
     766, 777, 788, 799, 809, 819, 829, 839, 848, 857,
     866, 875, 883, 891, 899, 906, 914, 921, 927, 934,
     940, 946, 951, 956, 961, 966, 970, 974, 978, 982,
     985, 988, 990, 993, 995, 996, 998, 999, 999, 1000,
     1000 >>

\* sin(radians(d)) in thousandths.
sin_deg(d) ==
  LET r == d % 360
  IN IF r <= 90 THEN SinTable[r + 1]
     ELSE IF r <= 180 THEN SinTable[180 - r + 1]
     ELSE IF r <= 270 THEN 0 - SinTable[r - 180 + 1]
     ELSE 0 - SinTable[360 - r + 1]

\* cos(radians(d)) in thousandths.
cos_deg(d) == sin_deg(90 - d)

\* The product of two numbers in thousandths, rounded towards zero.
times(x, y) ==
  IF x * y >= 0 THEN (x * y) \div Scale ELSE 0 - ((0 - x * y) \div Scale)

\* Mutant: cos(lat1) is used twice.
haversine_a_cos_lat1_twice(lat1, lat2, lon1, lon2) ==
  times(sin_deg((lat2 - lat1) \div 2), sin_deg((lat2 - lat1) \div 2))
    + times(times(cos_deg(lat1), cos_deg(lat1)),
            times(sin_deg((lon2 - lon1) \div 2), sin_deg((lon2 - lon1) \div 2)))

\* a = sin(dlat / 2) ** 2 + cos(lat1) * cos(lat2) * sin(dlon / 2) ** 2
haversine_a(lat1, lat2, lon1, lon2) ==
  times(sin_deg((lat2 - lat1) \div 2), sin_deg((lat2 - lat1) \div 2))
    + times(times(cos_deg(lat1), cos_deg(lat2)),
            times(sin_deg((lon2 - lon1) \div 2), sin_deg((lon2 - lon1) \div 2)))

\* The largest r in lo..hi with r * r <= n, by bisection.
RECURSIVE isqrt(_, _, _)
isqrt(n, lo, hi) ==
  IF lo = hi THEN lo
  ELSE LET mid == (lo + hi + 1) \div 2
       IN IF mid * mid <= n THEN isqrt(n, mid, hi) ELSE isqrt(n, lo, mid - 1)

\* sqrt of a number in thousandths, in thousandths.
sqrt(x) == isqrt(x * Scale, 0, Scale)

\* atan2(y, x) for y, x >= 0, in whole degrees: the largest angle t with
\* tan(t) <= y / x (the angles with this property are 0..t).
atan2(y, x) ==
  Cardinality({ t \in 1..90 : sin_deg(t) * x <= cos_deg(t) * y })

\* radians in thousandths.
radians(t) == (t * 3142) \div 180

\* The function: no test of its arguments; math.sqrt raises ValueError for a
\* negative argument.
get_distance_between_two_points_on_earth(lat1, lat2, lon1, lon2) ==
  LET R == 6373
      a == haversine_a(lat1, lat2, lon1, lon2)
  IN IF a < 0 \/ Scale - a < 0
       THEN [status |-> "ValueError", distance |-> 0]
       ELSE LET c == 2 * radians(atan2(sqrt(a), sqrt(Scale - a)))
            IN [status |-> "returned", distance |-> (R * c) \div Scale]

\* The arguments tried: latitudes and longitudes inside and outside the
\* valid ranges.
Latitudes == { 30 * k : k \in (0 - MaxLatSteps)..MaxLatSteps }
Longitudes == { 60 * k : k \in (0 - MaxLonSteps)..MaxLonSteps }

NotCalled == [status |-> "not_called", distance |-> 0]

Calls == {"AB", "BA", "AA"}

InitDistance ==
  /\ IdleDownloader
  /\ IdleFuser
  /\ IdleLoader
  /\ IdleBatch
  /\ IdlePair
  /\ IdleClosest
  /\ \E lat1 \in Latitudes, lat2 \in Latitudes, lon1 \in Longitudes, lon2 \in Longitudes :
       points = [lat1 |-> lat1, lat2 |-> lat2, lon1 |-> lon1, lon2 |-> lon2]
  /\ distances = [ k \in Calls |-> NotCalled ]

\* The call for the points A = (lat1, lon1) and B = (lat2, lon2).
DistanceAB ==
  /\ distances["AB"] = NotCalled
  /\ distances' = [distances EXCEPT !["AB"] =
       get_distance_between_two_points_on_earth(points.lat1, points.lat2,
                                                points.lon1, points.lon2)]
  /\ UNCHANGED << points, dvars, fvars, lvars, bvars, pvars, cvars >>

\* The call with A and B exchanged.
DistanceBA ==
  /\ distances["BA"] = NotCalled
  /\ distances' = [distances EXCEPT !["BA"] =
       get_distance_between_two_points_on_earth(points.lat2, points.lat1,
                                                points.lon2, points.lon1)]
  /\ UNCHANGED << points, dvars, fvars, lvars, bvars, pvars, cvars >>

\* The call for A and A.
DistanceAA ==
  /\ distances["AA"] = NotCalled
  /\ distances' = [distances EXCEPT !["AA"] =
       get_distance_between_two_points_on_earth(points.lat1, points.lat1,
                                                points.lon1, points.lon1)]
  /\ UNCHANGED << points, dvars, fvars, lvars, bvars, pvars, cvars >>

NextDistance == DistanceAB \/ DistanceBA \/ DistanceAA

SpecDistance == InitDistance /\ [][NextDistance]_vars

(***************************************************************************)
(* The CSV-era downloader (src/data/download/downloader.py):               *)
(* OpenAQDownloader.get_closest_station_to_location.  Coordinates are      *)
(* whole degrees, distances are in thousandths of a km and                 *)
(* location.distance is in hundredths of a km.                             *)
(***************************************************************************)
\* tol = 1e-3, in units of 1e-5 degrees.
tol == 100

\* 1 degree in units of 1e-5 degrees.
DegreeUnits == 100000

Abs(x) == IF x < 0 THEN 0 - x ELSE x

\* np.allclose(a, b, atol=tol) for one coordinate: the default rtol is 1e-5,
\* the test is |a - b| <= atol + rtol * |b|.
allclose(a, b) == Abs(a - b) * DegreeUnits <= tol + Abs(b)

\* The locations of interest and the coordinates of the stations of a city.
CityLocations == { [latitude |-> 0, longitude |-> 0],
                   [latitude |-> 20, longitude |-> 20] }
CityStations ==
  [ latitude : {0, 20, 40}, longitude : {0, 20}, has_variable : BOOLEAN ]

\* The answers of api.locations(city=...): up to MaxCityStations rows.
RECURSIVE CityAnswers(_)
CityAnswers(n) ==
  IF n = 0 THEN { <<>> }
  ELSE CityAnswers(n - 1)
         \cup { Append(q, st) : q \in { r \in CityAnswers(n - 1) : Len(r) = n - 1 },
                                st \in CityStations }

\* get_stations_in_city: the column is_in_location of every row.
get_stations_in_city(loc, stns) ==
  [ i \in 1..Len(stns) |->
      [ station |-> stns[i],
        is_in_location |-> /\ allclose(stns[i].latitude, loc.latitude)
                           /\ allclose(stns[i].longitude, loc.longitude) ] ]

\* The distance of the module, R * c, in thousandths of a km.
station_distance(loc, st) ==
  LET R == 6373
      a == haversine_a(st.latitude, loc.latitude, st.longitude, loc.longitude)
      c == 2 * radians(atan2(sqrt(a), sqrt(Scale - a)))
  IN R * c

\* round(x, 2) of a distance in thousandths: hundredths of a km.
round2(x) == (x + 5) \div 10

\* Series.idxmax: the first row with the largest value.
idxmax(col) ==
  CHOOSE i \in 1..Len(col) :
    /\ \A j \in 1..Len(col) : col[j] <= col[i]
    /\ \A j \in 1..(i - 1) : col[j] < col[i]

\* check_variable_in_station raises when the variable is not among the
\* parameters of the station.
check_variable_in_station(st) == IF st.has_variable THEN "returned" ELSE "Exception"

\* The whole method: the row chosen, the exception if any and the new
\* value of location.distance.
get_closest_station_to_location(loc, stns, old_distance) ==
  LET rows == get_stations_in_city(loc, stns)
      exact == { i \in 1..Len(rows) : rows[i].is_in_location }
  IN IF exact # {}
       THEN LET first == CHOOSE i \in exact : \A j \in exact : i <= j
            IN [status |-> check_variable_in_station(stns[first]),
                station |-> first, distance |-> old_distance]
       ELSE IF Len(stns) = 0
         THEN [status |-> "ValueError", station |-> 0, distance |-> old_distance]
         ELSE LET col == [ i \in 1..Len(stns) |-> station_distance(loc, stns[i]) ]
                  far == idxmax(col)
              IN [status |-> check_variable_in_station(stns[far]),
                  station |-> far, distance |-> round2(col[far])]

InitClosest ==
  /\ IdleDownloader
  /\ IdleFuser
  /\ IdleLoader
  /\ IdleBatch
  /\ IdlePair
  /\ IdleDistance
  /\ kpc = "call"
  /\ \E loc \in CityLocations, stns \in CityAnswers(MaxCityStations) :
       city = [location |-> loc, stations |-> stns]
  /\ location_distance = 0
  /\ closest = [status |-> "not_called", station |-> 0]

GetClosestStationToLocation ==
  /\ kpc = "call"
  /\ LET res == get_closest_station_to_location(city.location, city.stations,
                                                location_distance)
     IN /\ closest' = [status |-> res.status, station |-> res.station]
        /\ location_distance' = res.distance
        /\ kpc' = IF res.status = "returned" THEN "returned" ELSE "raised"
  /\ UNCHANGED << city, dvars, fvars, lvars, bvars, pvars, gvars >>

NextClosest == GetClosestStationToLocation

SpecClosest == InitClosest /\ [][NextClosest]_vars

(***************************************************************************)
(* Properties of OpenAQDownloader.run (specification Spec).                 *)
(***************************************************************************)
Requested == time_range

\* The station's [firstUpdated, lastUpdated] contains the requested range.
Contains(st) ==
  Requested.start >= st.firstUpdated /\ Requested.end <= st.lastUpdated

\* The hourly timestamps of the requested range inside the station's interval.
HoursInside(st) ==
  { u \in Requested.start..Requested.end :
      st.firstUpdated <= u /\ u <= st.lastUpdated }

\* The directory answered with at least one station.
Selected == directory_queries > 0 /\ Len(directory) > 0

\* get_data returned its list.
GetDataReturned ==
  \/ pc = "save"
  \/ pc = "returned" /\ file_written
  \/ pc = "raised" /\ error \in {"Concat", "Write"}

\* get_data is over, by return or by raise.
GetDataOver == GetDataReturned \/ error = "NoData"

\* C1: for a non-empty directory answer, the selector returns exactly the
\* reference-grade candidates when there is one, and all candidates
\* unchanged otherwise; distance plays no part.
C1_ReferenceGradePreferred ==
  Selected =>
    LET refs == { id \in Range(directory) :
                    Station(id).sensorType = "reference grade" }
    IN IF refs # {}
         THEN Range(candidates) = refs /\ Len(candidates) = Cardinality(refs)
         ELSE candidates = directory

\* C1 witness: a reference-grade station is kept and a closer low-cost
\* station of the same answer is discarded.
C1_Witness ==
  /\ Selected
  /\ \E r \in Range(directory), l \in Range(directory) :
       /\ Station(r).sensorType = "reference grade"
       /\ Station(l).sensorType = "low-cost sensor"
       /\ Station(l).distance < Station(r).distance
       /\ r \in Range(candidates)
       /\ l \notin Range(candidates)

\* C2: an empty directory answer ends run() with the no-stations error,
\* after one directory query, with no measurement query, no station
\* attempted and no output file.
C2_NoStationsHardStop ==
  (directory_queries > 0 /\ Len(directory) = 0) =>
    /\ pc = "raised"
    /\ error = "NoStations"
    /\ directory_queries = 1
    /\ ~measurements_queried
    /\ attempted = <<>>
    /\ ~file_written
    /\ ~output_exists

\* C2 witness: run() has raised the no-stations error.
C2_Witness ==
  pc = "raised" /\ error = "NoStations" /\ directory_queries = 1

\* C3 (as claimed): the score of every candidate is 1 when its interval
\* contains the requested range, and the out-of-range marker when its
\* interval ends before the requested range begins.
C3_ScoreOneOrOutOfRange ==
  \A id \in Range(candidates) :
    LET st == Station(id)
        s == is_in_temporal_range[id]
    IN /\ Contains(st) => (s.num = s.den /\ s.num > 0)
       /\ st.lastUpdated < Requested.start => s.num = OutOfRange

\* C4 (as claimed): the score of every candidate that neither contains the
\* requested range nor has the out-of-range marker is the share of the
\* requested hourly timestamps inside the station's interval, strictly
\* between 0 and 1.
C4_PartialScoreIsShare ==
  \A id \in Range(candidates) :
    LET st == Station(id)
        s == is_in_temporal_range[id]
        total == Requested.end - Requested.start + 1
    IN (~Contains(st) /\ s.num # OutOfRange) =>
         /\ s.num * total = Cardinality(HoursInside(st)) * s.den
         /\ 0 < s.num
         /\ s.num < s.den

\* C5 (as claimed): the ranked list is a permutation of the candidates
\* without the out-of-range marker, and distance / score is non-decreasing
\* along it.
C5_RankedByKey ==
  Selected =>
    /\ Range(stations) =
         { id \in Range(candidates) : is_in_temporal_range[id].num # OutOfRange }
    /\ Len(stations) = Cardinality(Range(stations))
    /\ \A i \in 1..(Len(stations) - 1) :
         FloatLE(combination(stations[i], is_in_temporal_range),
                 combination(stations[i + 1], is_in_temporal_range))

\* C6: stations are attempted in rank order, a failed station is skipped
\* and the loop goes on, the list holds the successful stations in rank
\* order, at most 5, and once get_data is over either the fifth success was
\* the last station attempted or every ranked station was attempted.
C6_FetchInRankOrderUpToFive ==
  /\ Len(attempted) <= Len(stations)
  /\ attempted = SubSeq(stations, 1, Len(attempted))
  /\ xr_datasets = SelectSeq(attempted, LAMBDA id : id \notin failed)
  /\ Len(xr_datasets) <= 5
  /\ GetDataOver =>
       IF Len(xr_datasets) = 5
         THEN attempted[Len(attempted)] = xr_datasets[5]
         ELSE attempted = stations

\* C6 witness: get_data returned 5 series after skipping a failed station,
\* and a ranked station after the fifth success was never attempted.
C6_Witness ==
  /\ GetDataReturned
  /\ Len(xr_datasets) = 5
  /\ failed # {}
  /\ Len(attempted) < Len(stations)

\* C7: get_data raises the no-data error exactly when every ranked station
\* was tried and none gave a series; with at least one series it returns a
\* non-empty list.
C7_NoDataIffNothingRetrieved ==
  /\ error = "NoData" =>
       /\ xr_datasets = <<>>
       /\ attempted = stations
       /\ failed = Range(stations)
  /\ GetDataReturned => (Len(xr_datasets) >= 1 /\ error # "NoData")
  /\ xr_datasets # <<>> => error # "NoData"
  /\ (Selected /\ pc \in {"save", "returned", "raised"} /\ xr_datasets = <<>>)
       => error = "NoData"

\* C7 witness: several ranked stations were tried, all failed, and get_data
\* raised.
C7_Witness ==
  /\ error = "NoData"
  /\ Len(attempted) >= 2
  /\ failed = Range(stations)

(***************************************************************************)
(* Properties of the fuser (specification SpecFuse).                        *)
(***************************************************************************)
\* C8 (as claimed): with two stations at equal distance, the fused value at
\* every timestamp where both have a value is their arithmetic mean.
C8_EqualDistanceGivesMean ==
  (fpc = "fused" /\ Len(ds) = 2 /\ ds[1].distance = ds[2].distance) =>
    \A t \in Times :
      (ds[1].values[t] # NaN /\ ds[2].values[t] # NaN) =>
        /\ fused.status = "ok"
        /\ 2 * fused.values[t] = ds[1].values[t] + ds[2].values[t]

\* C9 (as claimed): with two or more stations, the fused value at each
\* timestamp is the sum of w_i * v_i over the stations with a value there,
\* divided by the sum of their w_i, with w_i = round(1 / distance_i, 2).
C9_WeightedAverageOfPresent ==
  (fpc = "fused" /\ Len(ds) >= 2) =>
    \A t \in Times :
      LET P == Present(ds, t)
          w == [ i \in P |-> distance_weight(ds[i].distance) ]
          wv == [ i \in P |-> w[i] * ds[i].values[t] ]
      IN P # {} =>
           /\ fused.status = "ok"
           /\ fused.values[t] * SumOver(P, w) = SumOver(P, wv)

C11_SingleStationPassthrough ==
  (fpc = "fused" /\ Len(ds) = 1) =>
    /\ fused.status = "ok"
    /\ DOMAIN fused.values = DOMAIN ds[1].values
    /\ \A t \in Times : fused.values[t] = ds[1].values[t]
    /\ fused.coords = {"time"}

\* C11 witness: one station with a value at one timestamp and none at
\* another went through the fuser.
C11_Witness ==
  /\ fpc = "fused"
  /\ Len(ds) = 1
  /\ \E t \in Times, u \in Times :
       /\ ds[1].values[t] # NaN /\ fused.values[t] = ds[1].values[t]
       /\ ds[1].values[u] = NaN /\ fused.values[u] = NaN

(***************************************************************************)
(* Properties of DataLoader.run (specification SpecLoad).                  *)
(***************************************************************************)
\* run() has returned a table.
Returned == lpc = "done" /\ merged.status = "returned"

\* The observed series run() merges, as the loader computes it.
ObservedSeries ==
  opening_and_transforming_observations(loader.variable, loader.observations)

\* The table has a row for timestamp t.
HasRow(t) == \E r \in merged.table : r.time = t

\* C12: every row of the table returned by DataLoader.run has a non-missing
\* observed value, and its bias is its forecast value minus its observed
\* value.
C12_RowsHaveObservedAndBias ==
  Returned =>
    \A r \in merged.table :
      /\ r.observed # NaN
      /\ r.bias = r.forecast - r.observed

\* A returned table with a row, built from inputs in which some timestamp of
\* the merge has no observed value (that timestamp's row was dropped).
C12_Witness ==
  /\ Returned
  /\ merged.table # {}
  /\ \E r \in xr_merge(loader.forecast, ObservedSeries) :
       r.observed = NaN /\ ~HasRow(r.time)

\* C13: the table has a row for a timestamp if and only if the timestamp is
\* in both the forecast series and the observation series and its observed
\* value is not missing; a timestamp with a forecast value and a non-missing
\* observed value of the target variable is never dropped.  (A timestamp is
\* taken to be in the forecast series when the target variable has a
\* forecast value there.)
C13_RowIffInBothAndObserved ==
  Returned =>
    \A t \in ForecastTimes :
      LET inForecast == /\ t \in loader.forecast.times
                        /\ loader.forecast.target[t] # NaN
          inObserved == t \in DOMAIN ObservedSeries.values
          observedOk == inObserved /\ ObservedSeries.values[t] # NaN
      IN /\ HasRow(t) <=> (inForecast /\ observedOk)
         /\ (inForecast /\ observedOk) => HasRow(t)

\* C14: when no observation data exists for the location and variable,
\* DataLoader.run fails with the no-data exception and returns no table; a
\* failure while loading the forecast is not reported as that exception.
C14_NoGroundTruth ==
  lpc = "done" =>
    /\ (loader.forecast.status = "ok" /\ loader.observations.status = "raised")
         => (merged.status = "NoDataException" /\ merged.table = {})
    /\ loader.forecast.status = "raised" => merged.status # "NoDataException"

\* The forecast was loaded, the observation file does not exist, and run()
\* ended with the no-data exception.
C14_Witness ==
  /\ lpc = "done"
  /\ loader.forecast.status = "ok"
  /\ loader.observations.status = "raised"
  /\ merged.status = "NoDataException"

(***************************************************************************)
(* Properties of the output file of OpenAQDownloader.run (specification    *)
(* Spec).                                                                  *)
(***************************************************************************)
\* run() raised in station selection, in fetching or in the concatenation.
FailedBeforeWrite == pc = "raised" /\ error \in {"NoStations", "NoData", "Concat"}

C17_ExistingOutputIsKept ==
  file_at_call.exists =>
    /\ pc \in {"run", "returned"}
    /\ directory_queries = 0
    /\ ~measurements_queried
    /\ attempted = <<>>
    /\ ~file_written
    /\ output_exists
    /\ output_file = file_at_call.file

\* The second call of run() has returned, and the file is the one the first
\* call wrote from two series.
C17_Witness ==
  /\ runs = 2
  /\ pc = "returned"
  /\ file_at_call.exists
  /\ output_file.written_in_run = 1
  /\ output_file.complete
  /\ Len(output_file.data) >= 2

(***************************************************************************)
(* Properties of the batch (specification SpecBatch).                      *)
(***************************************************************************)
BatchRows == batch.locations_df.rows

\* The batch is over, normally or with an exception.
BatchOver == bpc \in {"finished", "aborted"}

\* An exception was raised before the try block of the current row.
RaisedBeforeTry ==
  location_raises(batch.locations_df) \/ constructor_raises(batch.variable)

Other(i) == CHOOSE j \in Pipelines : j # i

\* C18: pipelines of two distinct locations, in any interleaving of their
\* steps, give each location the outcome (file or error) of the two run one
\* after the other, in either order; no output file written by one pipeline
\* is tested, read or overwritten by the other.  A pipeline that ended while
\* the other was abandoned or is still running has the outcome of running
\* alone.
C18_InterleavingIsSequential ==
  /\ (\A i \in Pipelines : ppc[i] = "done") =>
       \A i \in Pipelines :
         LET seq == one_after_the_other(i, Other(i))
         IN pair_outcome = seq.outcome /\ files = seq.files
  /\ \A i \in Pipelines :
       ppc[i] = "done" =>
         LET alone == run_alone(i, pair.files)
         IN /\ pair_outcome[i] = alone.outcome
            /\ files[PathOf(i)] = alone.files[PathOf(i)]
  /\ \A q \in DOMAIN files :
       \A i \in writers[q] : readers[q] \cup writers[q] = {i}

\* Both pipelines of two locations of the same city ran to the end with
\* their steps interleaved, and each wrote its own file.
C18_Witness ==
  /\ \A i \in Pipelines : ppc[i] = "done" /\ pair_outcome[i] = "returned"
  /\ pair.locations[1].city = pair.locations[2].city
  /\ \A i \in Pipelines :
       /\ writers[PathOf(i)] = {i}
       /\ files[PathOf(i)].data = pair.locations[i].id

(***************************************************************************)
(* Properties of get_distance_between_two_points_on_earth (specification   *)
(* SpecDistance).                                                          *)
(***************************************************************************)
ValidLatitude(lat) == -90 <= lat /\ lat <= 90
ValidLongitude(lon) == -180 <= lon /\ lon <= 180

ValidPoints ==
  /\ ValidLatitude(points.lat1) /\ ValidLatitude(points.lat2)
  /\ ValidLongitude(points.lon1) /\ ValidLongitude(points.lon2)

Called(k) == distances[k] # NotCalled

\* C19: for valid coordinates A and B the function gives distance 0 between
\* A and A, and the same distance from A to B as from B to A.
C19_ZeroAndSymmetric ==
  ValidPoints =>
    /\ Called("AA") =>
         (distances["AA"].status = "returned" /\ distances["AA"].distance = 0)
    /\ (Called("AB") /\ Called("BA")) => distances["AB"] = distances["BA"]
    /\ Called("AB") => distances["AB"].status = "returned"

\* Two valid points of different latitude and longitude, a positive distance
\* both ways, and distance 0 from A to A.
C19_Witness ==
  /\ ValidPoints
  /\ points.lat1 # points.lat2 /\ points.lon1 # points.lon2
  /\ Called("AB") /\ Called("BA") /\ Called("AA")
  /\ distances["AB"].distance > 0
  /\ distances["AB"].distance = distances["BA"].distance
  /\ distances["AA"].distance = 0

\* C20: the function fails with an InputError whenever a latitude is outside
\* [-90, 90] or a longitude outside [-180, 180], and returns no distance.
C20_InputErrorOutOfRange ==
  (~ValidPoints /\ Called("AB")) => distances["AB"].status = "InputError"

(***************************************************************************)
(* Properties of the constructor and of get_data for the accepted          *)
(* variables (specification Spec).                                         *)
(***************************************************************************)
\* C21: constructing a downloader with a variable outside the accepted five
\* fails at once with NotImplementedError: no directory query, no measurement
\* query, no file write and no call of run() happens for it, and nothing is
\* tried again.
C21_RejectedVariableFailsFast ==
  /\ (variable \notin AcceptedVariables /\ pc # "construct") =>
       (pc = "not_constructed" /\ error = "NotImplementedError")
  /\ variable \notin AcceptedVariables =>
       /\ directory_queries = 0
       /\ ~measurements_queried
       /\ attempted = <<>>
       /\ ~file_written
       /\ runs = 0
  /\ pc = "not_constructed" => variable \notin AcceptedVariables

\* The constructor has raised for the unknown variable "co".
C21_Witness ==
  /\ pc = "not_constructed"
  /\ variable = "co"
  /\ error = "NotImplementedError"
  /\ directory_queries = 0

\* C25: for each accepted variable, if at least one ranked station lists the
\* variable among its parameters and its measurement query returns data,
\* get_data returns at least one series and does not raise the no-data error.
C25_AcceptedVariableWithDataIsFetched ==
  (variable \in AcceptedVariables /\ GetDataOver /\ with_data # {}) =>
    (xr_datasets # <<>> /\ error # "NoData")


\* The fused series at hour h: the average of the values of the stations
\* reporting at h, weighted by round(1 / distance, 2).
FusedAt(var, stns, h) ==
  LET here == { i \in 1..Len(stns) : h \in stns[i].hours }
  IN SumOver(here, [ i \in here |->
                       distance_weight(stns[i].distance) * to_micrograms(var, Reported(i, h)) ])
       \div SumOver(here, [ i \in here |-> distance_weight(stns[i].distance) ])

\* The average of the fused series over the 3-hour bucket b.
FusedThenResampled(var, stns, b) ==
  LET H == { h \in FileHours(stns) : Bin(h) = b }
  IN IF H = {} THEN NaN
     ELSE SumOver(H, [ h \in H |-> FusedAt(var, stns, h) ]) \div Cardinality(H)

\* C22: the observation value the merger uses for each 3-hour bucket is the
\* average over that bucket of the fused (inverse-distance-weighted across
\* stations) observation series: the fusion is applied first and the
\* resampling to its result.
C22_ResampledFromFusedSeries ==
  (lpc = "done" /\ loader.forecast.status = "ok" /\ loader.observations.status = "ok") =>
    /\ merged.status = "returned"
    /\ \A r \in merged.table :
         r.observed = FusedThenResampled(loader.variable,
                                         loader.observations.stations, r.time)

\* The calls of run() that returned, and those that raised.
ReturnedCalls == { k \in 1..Len(run_results) : run_results[k] \in {"returned", "exists"} }
RaisedCalls == { k \in 1..Len(run_results) : run_results[k] \notin {"returned", "exists"} }

ExactStations ==
  { i \in 1..Len(city.stations) :
      /\ Abs(city.stations[i].latitude - city.location.latitude) * DegreeUnits <= tol
      /\ Abs(city.stations[i].longitude - city.location.longitude) * DegreeUnits <= tol }

\* C23: get_closest_station_to_location returns a station at the exact
\* coordinates of the location (within 1e-3 degrees) when one exists;
\* otherwise it returns the station with the smallest haversine distance
\* among the stations of the city and sets location.distance to that
\* distance rounded to 2 decimals.
C23_ReturnsExactOrNearest ==
  (kpc = "returned") =>
    IF ExactStations # {}
      THEN closest.station \in ExactStations
      ELSE /\ \A j \in 1..Len(city.stations) :
                station_distance(city.location, city.stations[closest.station])
                  <= station_distance(city.location, city.stations[j])
           /\ location_distance =
                round2(station_distance(city.location, city.stations[closest.station]))

====
